---------------------------- MODULE Spec2Model ----------------------------
(***************************************************************************)
(* A model of LightGBM's DatasetLoader (src/io/dataset_loader.cpp).        *)
(*                                                                         *)
(* Every loader process p owns a DatasetLoader object (loader[p]), the     *)
(* locals of the read pass it is in (reader[p]), its Allgather buffers     *)
(* (net[p]) and the Dataset it is building (dataset[p]).  The processes    *)
(* of one distributed job share the configuration, the data files and the  *)
(* seed, hence the raw values of the pseudo-random stream (stream).        *)
(*                                                                         *)
(* Seven specifications share the definitions:                              *)
(*   SpecHeader     SetHeader, then the Datasets one loader builds         *)
(*   SpecBin        bin-mapper construction and assembly                   *)
(*   SpecPartition  the row / query partition of a distributed read        *)
(*   SpecReload     one rank's partition of a .bin file and of its text    *)
(*   SpecShard      the start / len arrays of the distributed bin search   *)
(*   SpecExtract    one machine: a training and a validation Dataset from  *)
(*                  text, the validation Dataset aligned with train_data   *)
(*   SpecLoad       LoadFromFile and LoadFromFileAlignWithOtherDataset     *)
(***************************************************************************)
EXTENDS Integers, Sequences, FiniteSets, TLC

VARIABLES
    io_config,   \* IOConfig, frozen at construction
    env,         \* the files on disk: text lines, query file, .bin file
    stream,      \* raw values of the generator seeded with data_random_seed
    args,        \* args[p]: the (rank, num_machines) a process was called with
    pc,          \* pc[p]: position of process p in its call
    loader,      \* loader[p]: DatasetLoader members
    reader,      \* reader[p]: locals of the read / sample pass
    net,         \* net[p]: input_buffer, output_buffer of the Allgather
    dataset      \* dataset[p]: the Dataset under construction

vars == <<io_config, env, stream, args, pc, loader, reader, net, dataset>>

----------------------------------------------------------------------------
(* Bounds of the model *)

MaxMachines == 2     \* num_machines of the distributed job ranges over 2..MaxMachines
MaxBin == 2          \* io_config.max_bin ranges over 2..MaxBin
MaxLines == 3        \* longest data file
RawBound == 2        \* a raw value of the generator ranges over 0..RawBound - 1
MaxRanks == 5        \* num_machines of the shard arithmetic ranges over 1..MaxRanks
MaxTotalFeature == 9 \* total_num_feature of the shard arithmetic ranges over 0..MaxTotalFeature

NO_SPECIFIC == -1

Min(a, b) == IF a < b THEN a ELSE b
Max(a, b) == IF a > b THEN a ELSE b

Procs == DOMAIN pc

----------------------------------------------------------------------------
(* Strings are sequences of characters.                                     *)

DigitChars == <<"0", "1", "2", "3", "4", "5", "6", "7", "8", "9">>

IsDigit(c) == \E d \in 1..10 : DigitChars[d] = c

DigitValue(c) == (CHOOSE d \in 1..10 : DigitChars[d] = c) - 1

RECURSIVE Decimal(_)
\* operator<< of a non-negative int
Decimal(i) ==
    IF i < 10 THEN <<DigitChars[i + 1]>>
    ELSE Decimal(i \div 10) \o <<DigitChars[(i % 10) + 1]>>

\* Common::StartsWith
StartsWith(str, prefix) ==
    Len(str) >= Len(prefix) /\ SubSeq(str, 1, Len(prefix)) = prefix

\* std::string::substr(pos)
Substr(str, pos) == SubSeq(str, pos + 1, Len(str))

RECURSIVE SplitFrom(_, _, _, _)
SplitFrom(str, delimiter, k, token) ==
    IF k > Len(str) THEN (IF token = <<>> THEN <<>> ELSE <<token>>)
    ELSE IF str[k] = delimiter
         THEN (IF token = <<>> THEN <<>> ELSE <<token>>)
              \o SplitFrom(str, delimiter, k + 1, <<>>)
         ELSE SplitFrom(str, delimiter, k + 1, Append(token, str[k]))

\* Common::Split: the non-empty tokens between delimiters
Split(str, delimiter) == SplitFrom(str, delimiter, 1, <<>>)

RECURSIVE AtoiValue(_, _)
AtoiValue(str, acc) ==
    IF str = <<>> THEN acc
    ELSE AtoiValue(Tail(str), 10 * acc + DigitValue(Head(str)))

\* Common::AtoiAndCheck: a decimal column number, nothing else
AtoiAndCheck(str) ==
    IF str # <<>> /\ \A k \in 1..Len(str) : IsDigit(str[k])
    THEN [ok |-> TRUE, out |-> AtoiValue(str, 0)]
    ELSE [ok |-> FALSE, out |-> 0]

----------------------------------------------------------------------------
(* Parsed text lines.  Parser::ParseOneLine yields (column, value) pairs in *)
(* post-label-removal coordinates and the label.                            *)

Line(label, pairs) == [label |-> label, pairs |-> pairs]

LineA == Line(0, << <<0, 1>> >>)
LineB == Line(1, << <<0, 1>>, <<1, 2>> >>)
LineC == Line(0, << <<0, 2>>, <<2, 1>> >>)
LineD == Line(1, << <<1, 0>> >>)

\* the samples a loader may hold when it builds the bin mappers
SampleChoices ==
    { <<>>,
      <<LineA, LineB>>,
      <<LineB, LineC>>,
      <<LineA, LineC>>,
      <<LineD, LineA>>,
      <<LineC, LineC>>,
      <<LineD, LineA, LineC>> }

\* the num_data a caller of CostructFromSampleData may pass
NumDataChoices == {1, 3}

----------------------------------------------------------------------------
(* BinMapper (interface): FindBin, is_trival, CopyTo, CopyFrom,             *)
(* SizeForSpecificBin                                                       *)

RECURSIVE SortedSeq(_)
SortedSeq(S) ==
    IF S = {} THEN <<>>
    ELSE LET m == CHOOSE x \in S : \A y \in S : x <= y
         IN  <<m>> \o SortedSeq(S \ {m})

SeqRange(s) == {s[k] : k \in 1..Len(s)}

\* values: the non-zero sampled values of one column; the other
\* total_sample_cnt - Len(values) samples are zero.
FindBin(values, total_sample_cnt, max_bin) ==
    LET distinct == SeqRange(values) \cup (IF Len(values) < total_sample_cnt THEN {0} ELSE {})
        sorted == SortedSeq(distinct)
        num_bin == Max(1, Min(Len(sorted), max_bin))
    IN  [num_bin |-> num_bin,
         bin_upper_bound |-> [k \in 1..num_bin |-> IF k <= Len(sorted) THEN sorted[k] ELSE 0]]

is_trival(bin_mapper) == bin_mapper.num_bin <= 1

SizeForSpecificBin(max_bin) == 2 + max_bin

\* the fixed-size slot of one BinMapper: num_bin, is_trival, max_bin bounds
CopyTo(bin_mapper, max_bin) ==
    <<bin_mapper.num_bin, IF is_trival(bin_mapper) THEN 1 ELSE 0>>
    \o [k \in 1..max_bin |-> IF k <= bin_mapper.num_bin THEN bin_mapper.bin_upper_bound[k] ELSE 0]

\* reads the BinMapper stored at 0-based offset off of buffer
CopyFrom(buffer, off) ==
    LET num_bin == buffer[off + 1]
    IN  [num_bin |-> num_bin,
         bin_upper_bound |-> [k \in 1..num_bin |-> buffer[off + 2 + k]]]

NullMapper == [num_bin |-> 0, bin_upper_bound |-> <<>>]

----------------------------------------------------------------------------
(* Dataset                                                                  *)

\* label, weights, queries: the metadata_ rows; data: the (feature, row,
\* value) triples pushed to the features
EmptyDataset ==
    [num_data |-> 0, num_total_features |-> 0, num_features |-> 0,
     used_feature_map |-> <<>>, feature_names |-> <<>>, features |-> <<>>,
     is_loading_from_binfile |-> FALSE,
     label |-> <<>>, weights |-> {}, queries |-> {}, data |-> {}]

Feature(feature_idx, bin_mapper) ==
    [feature_idx |-> feature_idx, bin_mapper |-> bin_mapper]

ColumnName(i) == <<"C", "o", "l", "u", "m", "n", "_">> \o Decimal(i)

----------------------------------------------------------------------------
(* ConstructBinMappersFromTextData: from sample lines to sample_values      *)

\* one (column, value) pair of a sample line
PushSampleValue(sample_values, pair) ==
    LET c == pair[1]
        v == pair[2]
        need_size == c - Len(sample_values) + 1
        expanded == IF c >= Len(sample_values)
                    THEN sample_values \o [j \in 1..need_size |-> <<>>]
                    ELSE sample_values
    IN  IF v # 0
        THEN [expanded EXCEPT ![c + 1] = Append(@, v)]
        ELSE sample_values

RECURSIVE PushSampleLine(_, _)
PushSampleLine(sample_values, pairs) ==
    IF pairs = <<>> THEN sample_values
    ELSE PushSampleLine(PushSampleValue(sample_values, Head(pairs)), Tail(pairs))

RECURSIVE BuildSampleValues(_)
BuildSampleValues(sample_data) ==
    IF sample_data = <<>> THEN <<>>
    ELSE PushSampleLine(BuildSampleValues(SubSeq(sample_data, 1, Len(sample_data) - 1)),
                        sample_data[Len(sample_data)].pairs)

\* feature_names_ is filled with placeholders only when it is empty
FillFeatureNames(feature_names_, num_total_features) ==
    IF Len(feature_names_) <= 0
    THEN [i \in 1..num_total_features |-> ColumnName(i - 1)]
    ELSE feature_names_

\* the Dataset fields set before the bins are searched
StartDataset(ds, sample_values, feature_names_) ==
    [ds EXCEPT !.features = <<>>,
               !.used_feature_map = [i \in 1..Len(sample_values) |-> -1],
               !.num_total_features = Len(sample_values),
               !.feature_names = feature_names_]

\* the CHECKs on label_idx_, weight_idx_ and group_idx_
RoleRangeOk(ld, num_total_features) ==
    /\ ld.label_idx_ >= 0 /\ ld.label_idx_ <= num_total_features
    /\ (ld.weight_idx_ < 0 \/ ld.weight_idx_ < num_total_features)
    /\ (ld.group_idx_ < 0 \/ ld.group_idx_ < num_total_features)

\* (mutant) the used index is taken from the column, not from features_.size()
PushFeatureAtColumn(ds, i, bin_mapper) ==
    [ds EXCEPT !.used_feature_map[i + 1] = i,
               !.features = Append(@, Feature(i, bin_mapper))]

\* a kept column: map the real feature index to the used one, push the Feature
PushFeature(ds, i, bin_mapper) ==
    [ds EXCEPT !.used_feature_map[i + 1] = Len(ds.features),
               !.features = Append(@, Feature(i, bin_mapper))]

FinishFeatures(ds) == [ds EXCEPT !.num_features = Len(ds.features)]

(* single machine: find the bins locally *)
LocalBinMappers(sample_values, sample_size, max_bin, ignore_features_) ==
    [k \in 1..Len(sample_values) |->
        IF (k - 1) \in ignore_features_
        THEN NullMapper
        ELSE FindBin(sample_values[k], sample_size, max_bin)]

\* (mutant) a trivial BinMapper is kept like any other
RECURSIVE AssembleLocalKeepTrivial(_, _, _)
AssembleLocalKeepTrivial(ds, bin_mappers, i) ==
    IF i >= Len(bin_mappers) THEN ds
    ELSE IF bin_mappers[i + 1] = NullMapper
         THEN AssembleLocalKeepTrivial(ds, bin_mappers, i + 1)
         ELSE AssembleLocalKeepTrivial(PushFeature(ds, i, bin_mappers[i + 1]),
                                       bin_mappers, i + 1)

RECURSIVE AssembleLocal(_, _, _)
AssembleLocal(ds, bin_mappers, i) ==
    IF i >= Len(bin_mappers) THEN ds
    ELSE IF bin_mappers[i + 1] = NullMapper
         THEN AssembleLocal(ds, bin_mappers, i + 1)
         ELSE IF ~is_trival(bin_mappers[i + 1])
              THEN AssembleLocal(PushFeature(ds, i, bin_mappers[i + 1]), bin_mappers, i + 1)
              ELSE AssembleLocal(ds, bin_mappers, i + 1)

(* several machines: machine i finds the bins of [start[i], start[i] + len[i]) *)
\* (mutant) the step is rounded down
ShardStepFloor(total_num_feature, num_machines) ==
    Max(1, total_num_feature \div num_machines)

ShardStep(total_num_feature, num_machines) ==
    Max(1, (total_num_feature + num_machines - 1) \div num_machines)

RECURSIVE ShardStart(_, _, _)
ShardStart(i, total_num_feature, num_machines) ==
    IF i = 0 THEN 0
    ELSE LET prev == ShardStart(i - 1, total_num_feature, num_machines)
         IN  prev + Min(ShardStep(total_num_feature, num_machines), total_num_feature - prev)

ShardLen(i, total_num_feature, num_machines) ==
    IF i < num_machines - 1
    THEN Min(ShardStep(total_num_feature, num_machines),
             total_num_feature - ShardStart(i, total_num_feature, num_machines))
    ELSE total_num_feature - ShardStart(num_machines - 1, total_num_feature, num_machines)

ZeroBuffer(size) == [k \in 1..size |-> 0]

WriteAt(buffer, off, cells) ==
    [k \in 1..Len(buffer) |->
        IF k > off /\ k <= off + Len(cells) THEN cells[k - off] ELSE buffer[k]]

\* (mutant) the slot is addressed by the column, not by its place in the shard
RECURSIVE FillInputBufferAtColumn(_, _, _, _, _, _)
FillInputBufferAtColumn(buffer, i, sample_values, sample_size, max_bin, shard) ==
    IF i >= shard.len THEN buffer
    ELSE FillInputBufferAtColumn(
            WriteAt(buffer, (shard.start + i) * SizeForSpecificBin(max_bin),
                    CopyTo(FindBin(sample_values[shard.start + i + 1], sample_size, max_bin),
                           max_bin)),
            i + 1, sample_values, sample_size, max_bin, shard)

\* (mutant) the bins are found for column i, not for column start[rank] + i
RECURSIVE FillInputBufferNoStart(_, _, _, _, _, _)
FillInputBufferNoStart(buffer, i, sample_values, sample_size, max_bin, shard) ==
    IF i >= shard.len THEN buffer
    ELSE FillInputBufferNoStart(
            WriteAt(buffer, i * SizeForSpecificBin(max_bin),
                    CopyTo(FindBin(sample_values[i + 1], sample_size, max_bin), max_bin)),
            i + 1, sample_values, sample_size, max_bin, shard)

\* find the local feature bins and copy them to input_buffer
RECURSIVE FillInputBuffer(_, _, _, _, _, _)
FillInputBuffer(buffer, i, sample_values, sample_size, max_bin, shard) ==
    IF i >= shard.len THEN buffer
    ELSE FillInputBuffer(
            WriteAt(buffer, i * SizeForSpecificBin(max_bin),
                    CopyTo(FindBin(sample_values[shard.start + i + 1], sample_size, max_bin),
                           max_bin)),
            i + 1, sample_values, sample_size, max_bin, shard)

\* restore the feature bins from output_buffer
RECURSIVE RestoreFeatures(_, _, _, _, _)
RestoreFeatures(ds, output_buffer, i, type_size, ignore_features_) ==
    IF i >= ds.num_total_features THEN ds
    ELSE IF i \in ignore_features_
         THEN RestoreFeatures(ds, output_buffer, i + 1, type_size, ignore_features_)
         ELSE LET bin_mapper == CopyFrom(output_buffer, i * type_size)
              IN  IF ~is_trival(bin_mapper)
                  THEN RestoreFeatures(PushFeature(ds, i, bin_mapper), output_buffer,
                                       i + 1, type_size, ignore_features_)
                  ELSE RestoreFeatures(ds, output_buffer, i + 1, type_size, ignore_features_)

(* Network::Allgather: every participant contributes its block, every       *)
(* participant receives the concatenation of all contributions              *)
Job(p) == {q \in Procs : args[q].num_machines = args[p].num_machines
                         /\ args[q].num_machines > 1}

RankProc(job, r) == CHOOSE q \in job : args[q].rank = r

RECURSIVE Gathered(_, _, _)
Gathered(job, r, n) ==
    IF r >= n THEN <<>>
    ELSE LET q == RankProc(job, r)
         IN  SubSeq(net[q].input_buffer, 1, net[q].block_len) \o Gathered(job, r + 1, n)

FitBuffer(cells, size) ==
    [k \in 1..size |-> IF k <= Len(cells) THEN cells[k] ELSE 0]


----------------------------------------------------------------------------
(* Per-process state                                                        *)

NewLoader ==
    [random_ |-> 0, label_idx_ |-> 0, weight_idx_ |-> NO_SPECIFIC,
     group_idx_ |-> NO_SPECIFIC, ignore_features_ |-> {}, feature_names_ |-> <<>>]

NewReader ==
    [line_idx |-> 0, qid |-> -1, is_query_used |-> FALSE, cur_sample_cnt |-> 0,
     used_data_indices |-> <<>>, text_data |-> <<>>, sample_data |-> <<>>,
     num_global_data |-> 0, decisions |-> <<>>, calls |-> 0]

NewNet == [input_buffer |-> <<>>, output_buffer |-> <<>>, block_len |-> 0, entered |-> FALSE]

Call(entry, rank, num_machines) ==
    [entry |-> entry, rank |-> rank, num_machines |-> num_machines]

DefaultConfig ==
    [has_header |-> FALSE, label_column |-> <<>>, weight_column |-> <<>>,
     group_column |-> <<>>, ignore_column |-> <<>>, max_bin |-> 2,
     bin_construct_sample_cnt |-> 1, use_two_round_loading |-> FALSE,
     is_pre_partition |-> FALSE, is_enable_sparse |-> FALSE, num_class |-> 1]

NoEnv ==
    [header |-> <<>>, lines |-> <<>>, query_boundaries |-> <<>>, bin |-> <<>>,
     train_data |-> EmptyDataset]

----------------------------------------------------------------------------
(* DatasetLoader::ConstructBinMappersFromTextData                           *)

\* up to the Allgather (several machines) or to the end (one machine)
ConstructBinMappersFromTextData(p) ==
    /\ pc[p] = "bins"
    /\ LET sample_data == reader[p].sample_data
           sample_values == BuildSampleValues(sample_data)
           total_num_feature == Len(sample_values)
           num_machines == args[p].num_machines
           max_bin == io_config.max_bin
           type_size == SizeForSpecificBin(max_bin)
           names == FillFeatureNames(loader[p].feature_names_, total_num_feature)
           ds == StartDataset(dataset[p], sample_values, names)
           shard == [start |-> ShardStart(args[p].rank, total_num_feature, num_machines),
                     len |-> ShardLen(args[p].rank, total_num_feature, num_machines)]
       IN  IF ~RoleRangeOk(loader[p], total_num_feature)
           THEN /\ pc' = [pc EXCEPT ![p] = "fatal"]
                /\ dataset' = [dataset EXCEPT ![p] =
                                   [ds EXCEPT !.feature_names = dataset[p].feature_names]]
                /\ UNCHANGED <<loader, net>>
           ELSE /\ loader' = [loader EXCEPT ![p].feature_names_ = names]
                /\ IF num_machines = 1
                   THEN /\ dataset' = [dataset EXCEPT ![p] = FinishFeatures(
                                AssembleLocal(ds,
                                    LocalBinMappers(sample_values, Len(sample_data), max_bin,
                                                    loader[p].ignore_features_), 0))]
                        /\ pc' = [pc EXCEPT ![p] = "assembled"]
                        /\ UNCHANGED net
                   ELSE /\ dataset' = [dataset EXCEPT ![p] = ds]
                        /\ net' = [net EXCEPT ![p] =
                                [input_buffer |-> FillInputBuffer(
                                     ZeroBuffer(type_size * total_num_feature), 0,
                                     sample_values, Len(sample_data), max_bin, shard),
                                 output_buffer |-> ZeroBuffer(type_size * total_num_feature),
                                 block_len |-> shard.len * type_size,
                                 entered |-> TRUE]]
                        /\ pc' = [pc EXCEPT ![p] = "allgather"]
    /\ UNCHANGED <<io_config, env, stream, args, reader>>

\* the Allgather returns once every rank of the job has entered it; the
\* feature bins are then restored from output_buffer
AllgatherAndRestore(p) ==
    /\ pc[p] = "allgather"
    /\ \A r \in 0..(args[p].num_machines - 1) :
           \E q \in Job(p) : args[q].rank = r /\ net[q].entered
    /\ LET type_size == SizeForSpecificBin(io_config.max_bin)
           output_buffer == FitBuffer(Gathered(Job(p), 0, args[p].num_machines),
                                      Len(net[p].output_buffer))
       IN  /\ net' = [net EXCEPT ![p].output_buffer = output_buffer]
           /\ dataset' = [dataset EXCEPT ![p] = FinishFeatures(
                              RestoreFeatures(dataset[p], output_buffer, 0, type_size,
                                              loader[p].ignore_features_))]
    /\ pc' = [pc EXCEPT ![p] = "assembled"]
    /\ UNCHANGED <<io_config, env, stream, args, loader, reader>>

----------------------------------------------------------------------------
(* DatasetLoader::CostructFromSampleData                                    *)

RECURSIVE AssembleSample(_, _, _)
AssembleSample(ds, bin_mappers, i) ==
    IF i >= Len(bin_mappers) THEN ds
    ELSE IF ~is_trival(bin_mappers[i + 1])
         THEN AssembleSample(PushFeature(ds, i, bin_mappers[i + 1]), bin_mappers, i + 1)
         ELSE AssembleSample(ds, bin_mappers, i + 1)

CostructFromSampleData(p) ==
    /\ pc[p] = "sample"
    /\ \E num_data \in NumDataChoices :
         LET sample_values == BuildSampleValues(reader[p].sample_data)
             total_sample_size == Len(reader[p].sample_data)
             bin_mappers == [k \in 1..Len(sample_values) |->
                                FindBin(sample_values[k], total_sample_size, io_config.max_bin)]
             ds == [EmptyDataset EXCEPT !.num_data = num_data,
                                        !.used_feature_map = [k \in 1..Len(bin_mappers) |-> -1],
                                        !.num_total_features = Len(bin_mappers)]
             names == FillFeatureNames(loader[p].feature_names_, ds.num_total_features)
         IN  /\ loader' = [loader EXCEPT ![p].feature_names_ = names]
             /\ dataset' = [dataset EXCEPT ![p] = FinishFeatures(
                                [AssembleSample(ds, bin_mappers, 0) EXCEPT !.feature_names = names])]
    /\ pc' = [pc EXCEPT ![p] = "assembled"]
    /\ UNCHANGED <<io_config, env, stream, args, reader, net>>

----------------------------------------------------------------------------
(* SpecBin: the ranks of one job hold their samples and build the bin       *)
(* mappers; one more loader builds them alone from the sample of rank 0,    *)
(* from text (num_machines = 1) or through CostructFromSampleData.          *)

IgnoreChoices == {{}, {0}, {1}}

InitBin ==
    \E M \in 2..MaxMachines, max_bin \in 2..MaxBin, ign \in IgnoreChoices,
       alone \in {"LoadFromFile", "CostructFromSampleData"} :
      \E samples \in [0..(M - 1) -> SampleChoices] :
        /\ io_config = [DefaultConfig EXCEPT !.max_bin = max_bin]
        /\ env = NoEnv
        /\ stream = <<>>
        /\ args = [p \in 0..M |-> IF p < M THEN Call("LoadFromFile", p, M)
                                  ELSE Call(alone, 0, 1)]
        /\ pc = [p \in 0..M |-> IF p = M /\ alone = "CostructFromSampleData"
                                THEN "sample" ELSE "bins"]
        /\ loader = [p \in 0..M |-> [NewLoader EXCEPT !.ignore_features_ =
                                        IF p = M /\ alone = "CostructFromSampleData"
                                        THEN {} ELSE ign]]
        /\ reader = [p \in 0..M |-> [NewReader EXCEPT !.sample_data =
                                        IF p < M THEN samples[p] ELSE samples[0]]]
        /\ net = [p \in 0..M |-> NewNet]
        /\ dataset = [p \in 0..M |-> EmptyDataset]

BinMappersStep == \E p \in Procs : ConstructBinMappersFromTextData(p)
AllgatherStep == \E p \in Procs : AllgatherAndRestore(p)
SampleDataStep == \E p \in Procs : CostructFromSampleData(p)

NextBin == BinMappersStep \/ AllgatherStep \/ SampleDataStep

SpecBin == InitBin /\ [][NextBin]_vars


----------------------------------------------------------------------------
(* Random (interface).  Loaders built with the same data_random_seed draw   *)
(* the same raw values: stream[k + 1] is the raw value of draw k, fixed the *)
(* first time any process consumes draw k.                                  *)

RawValues == 0..(RawBound - 1)

RawAt(s, k) == IF k < Len(s) THEN s[k + 1] ELSE 0

\* Random::NextInt(lower, upper) at draw k
NextInt(s, k, lower, upper) == lower + (RawAt(s, k) % (upper - lower))

\* the streams that extend stream by the values a step may consume
Extended == {stream \o ext : ext \in {<<>>} \cup {<<a>> : a \in RawValues}
                                   \cup {<<a, b>> : a, b \in RawValues}}

\* s fixes exactly the draws below k that stream did not fix yet
FixesUpTo(s, k) == Len(s) = Max(Len(stream), k)

----------------------------------------------------------------------------
(* The partition predicates handed to the TextReader (and inlined in        *)
(* LoadFromBinFile).  st holds random_ (the number of draws consumed), qid, *)
(* is_query_used and the decisions taken so far.                            *)

PartitionNeeded(p) == args[p].num_machines > 1 /\ ~io_config.is_pre_partition

Decision(line_idx, draw, keep) == [line_idx |-> line_idx, draw |-> draw, keep |-> keep]

\* no query data: the minimal sample unit is one record
RowPredicate(st, line_idx, rank, num_machines, s) ==
    LET keep == NextInt(s, st.random_, 0, num_machines) = rank
    IN  [st EXCEPT !.fatal = FALSE, !.keep = keep,
                   !.random_ = @ + 1,
                   !.decisions = Append(@, Decision(line_idx, st.random_, keep))]

\* (mutant) a query is entered one row late
QueryPredicateLate(st, line_idx, rank, num_machines, query_boundaries, s) ==
    LET num_queries == Len(query_boundaries) - 1
        used == NextInt(s, st.random_, 0, num_machines) = rank
    IN  IF st.qid >= num_queries
        THEN [st EXCEPT !.fatal = TRUE, !.keep = FALSE]
        ELSE IF line_idx > query_boundaries[st.qid + 2]
             THEN [st EXCEPT !.fatal = FALSE, !.keep = used,
                             !.is_query_used = used,
                             !.random_ = @ + 1,
                             !.qid = @ + 1,
                             !.decisions = Append(@, Decision(line_idx, st.random_, used))]
             ELSE [st EXCEPT !.fatal = FALSE, !.keep = st.is_query_used]

\* query data: the minimal sample unit is one query
QueryPredicate(st, line_idx, rank, num_machines, query_boundaries, s) ==
    LET num_queries == Len(query_boundaries) - 1
        used == NextInt(s, st.random_, 0, num_machines) = rank
    IN  IF st.qid >= num_queries
        THEN [st EXCEPT !.fatal = TRUE, !.keep = FALSE]
        ELSE IF line_idx >= query_boundaries[st.qid + 2]
             THEN [st EXCEPT !.fatal = FALSE, !.keep = used,
                             !.is_query_used = used,
                             !.random_ = @ + 1,
                             !.qid = @ + 1,
                             !.decisions = Append(@, Decision(line_idx, st.random_, used))]
             ELSE [st EXCEPT !.fatal = FALSE, !.keep = st.is_query_used]

PredicateState(p) ==
    [random_ |-> loader[p].random_, qid |-> reader[p].qid,
     is_query_used |-> reader[p].is_query_used, decisions |-> reader[p].decisions,
     fatal |-> FALSE, keep |-> FALSE]

\* query_boundaries() == nullptr selects the row predicate
Predicate(p, s) ==
    IF env.query_boundaries = <<>>
    THEN RowPredicate(PredicateState(p), reader[p].line_idx, args[p].rank,
                      args[p].num_machines, s)
    ELSE QueryPredicate(PredicateState(p), reader[p].line_idx, args[p].rank,
                        args[p].num_machines, env.query_boundaries, s)

\* the locals of the pass after the predicate ran on the current line
AfterPredicate(rd, st) ==
    [rd EXCEPT !.qid = st.qid, !.is_query_used = st.is_query_used,
               !.decisions = st.decisions,
               !.line_idx = @ + 1,
               !.used_data_indices = IF st.keep THEN Append(@, rd.line_idx) ELSE @]

CurrentLine(p) == env.lines[reader[p].line_idx + 1]

MoreLines(p) == reader[p].line_idx < Len(env.lines)

----------------------------------------------------------------------------
(* TextReader (interface): the reservoir of SampleFromFile and of           *)
(* SampleAndFilterFromFile.  n is the number of candidate lines seen,       *)
(* the current one included.                                                *)

Reservoir(rd, line, sample_cnt, n, random_, s) ==
    IF rd.cur_sample_cnt < sample_cnt
    THEN [rd |-> [rd EXCEPT !.sample_data = Append(@, line), !.cur_sample_cnt = @ + 1],
          random_ |-> random_]
    ELSE LET idx == NextInt(s, random_, 0, n)
         IN  [rd |-> IF idx < sample_cnt
                     THEN [rd EXCEPT !.sample_data[idx + 1] = line]
                     ELSE rd,
              random_ |-> random_ + 1]

----------------------------------------------------------------------------
(* DatasetLoader::LoadTextDataToMemory                                      *)

\* num_machines == 1 or is_pre_partition: ReadAllLines
LoadTextDataToMemoryAll(p) ==
    /\ pc[p] = "read_mem"
    /\ ~PartitionNeeded(p)
    /\ reader' = [reader EXCEPT ![p].used_data_indices = <<>>,
                                ![p].text_data = env.lines,
                                ![p].line_idx = Len(env.lines),
                                ![p].num_global_data = Len(env.lines)]
    /\ pc' = [pc EXCEPT ![p] = "mem_loaded"]
    /\ UNCHANGED <<io_config, env, stream, args, loader, net, dataset>>

\* ReadAndFilterLines on the next line
LoadTextDataToMemoryLine(p) ==
    /\ pc[p] = "read_mem"
    /\ PartitionNeeded(p)
    /\ MoreLines(p)
    /\ \E s \in Extended :
         LET st == Predicate(p, s)
         IN  /\ FixesUpTo(s, st.random_)
             /\ stream' = s
             /\ loader' = [loader EXCEPT ![p].random_ = st.random_]
             /\ IF st.fatal
                THEN /\ pc' = [pc EXCEPT ![p] = "fatal"]
                     /\ UNCHANGED reader
                ELSE /\ reader' = [reader EXCEPT ![p] =
                            [AfterPredicate(reader[p], st) EXCEPT !.text_data =
                                IF st.keep THEN Append(@, CurrentLine(p)) ELSE @]]
                     /\ UNCHANGED pc
    /\ UNCHANGED <<io_config, env, args, net, dataset>>

----------------------------------------------------------------------------
(* DatasetLoader::SampleTextDataFromFile                                    *)

\* SampleFromFile or SampleAndFilterFromFile on the next line
SampleTextDataFromFileLine(p) ==
    /\ pc[p] = "read_file"
    /\ MoreLines(p)
    /\ \E s \in Extended :
         LET sample_cnt == io_config.bin_construct_sample_cnt
             st == IF PartitionNeeded(p)
                   THEN Predicate(p, s)
                   ELSE [PredicateState(p) EXCEPT !.keep = TRUE]
             rd == IF PartitionNeeded(p)
                   THEN AfterPredicate(reader[p], st)
                   ELSE [reader[p] EXCEPT !.line_idx = @ + 1]
             n == IF PartitionNeeded(p) THEN Len(rd.used_data_indices)
                  ELSE reader[p].line_idx + 1
             res == IF st.keep
                    THEN Reservoir(rd, CurrentLine(p), sample_cnt, n, st.random_, s)
                    ELSE [rd |-> rd, random_ |-> st.random_]
         IN  /\ FixesUpTo(s, res.random_)
             /\ stream' = s
             /\ loader' = [loader EXCEPT ![p].random_ = IF st.fatal THEN st.random_
                                                        ELSE res.random_]
             /\ IF st.fatal
                THEN /\ pc' = [pc EXCEPT ![p] = "fatal"]
                     /\ UNCHANGED reader
                ELSE /\ reader' = [reader EXCEPT ![p] = res.rd]
                     /\ UNCHANGED pc
    /\ UNCHANGED <<io_config, env, args, net, dataset>>

----------------------------------------------------------------------------
(* DatasetLoader::LoadFromBinFile: the partition of the rows of the file    *)

\* (mutant) the loop over the rows never looks at the query boundaries
LoadFromBinFileRowNoQuery(p) ==
    /\ pc[p] = "read_bin"
    /\ PartitionNeeded(p)
    /\ MoreLines(p)
    /\ \E s \in Extended :
         LET st == RowPredicate(PredicateState(p), reader[p].line_idx, args[p].rank,
                                args[p].num_machines, s)
         IN  /\ FixesUpTo(s, st.random_)
             /\ stream' = s
             /\ loader' = [loader EXCEPT ![p].random_ = st.random_]
             /\ reader' = [reader EXCEPT ![p] = AfterPredicate(reader[p], st)]
             /\ UNCHANGED pc
    /\ UNCHANGED <<io_config, env, args, net, dataset>>

LoadFromBinFileRow(p) ==
    /\ pc[p] = "read_bin"
    /\ PartitionNeeded(p)
    /\ MoreLines(p)
    /\ \E s \in Extended :
         LET st == Predicate(p, s)
         IN  /\ FixesUpTo(s, st.random_)
             /\ stream' = s
             /\ loader' = [loader EXCEPT ![p].random_ = st.random_]
             /\ IF st.fatal
                THEN /\ pc' = [pc EXCEPT ![p] = "fatal"]
                     /\ UNCHANGED reader
                ELSE /\ reader' = [reader EXCEPT ![p] = AfterPredicate(reader[p], st)]
                     /\ UNCHANGED pc
    /\ UNCHANGED <<io_config, env, args, net, dataset>>

\* the reader, or the loop over the rows, reached the end of the file
EndOfFile(p) ==
    /\ pc[p] \in {"read_mem", "read_file", "read_bin"}
    /\ pc[p] = "read_file" \/ PartitionNeeded(p)
    /\ ~MoreLines(p)
    /\ reader' = [reader EXCEPT ![p].num_global_data = Len(env.lines)]
    /\ pc' = [pc EXCEPT ![p] = CASE pc[p] = "read_mem" -> "mem_loaded"
                                 [] pc[p] = "read_file" -> "file_sampled"
                                 [] pc[p] = "read_bin" -> "bin_partitioned"]
    /\ UNCHANGED <<io_config, env, stream, args, loader, net, dataset>>

----------------------------------------------------------------------------
(* SpecPartition: the ranks of one job, built with the same seed, read the  *)
(* same file without pre-partition, all through the same function.          *)

DataFile == <<LineB, LineC, LineA, LineD, LineB>>

RECURSIVE Boundaries(_)
\* the strictly increasing query boundaries that start at 0 and end by n
Boundaries(n) ==
    IF n = 0 THEN {<<0>>}
    ELSE Boundaries(n - 1)
         \cup {Append(b, n) : b \in Boundaries(n - 1)}

ReadModes == {"read_mem", "read_file", "read_bin"}

InitPartition ==
    \E M \in 2..MaxMachines, mode \in ReadModes, n \in 0..MaxLines,
       qb \in {<<>>} \cup (Boundaries(MaxLines) \ {<<0>>}) :
        /\ io_config = [DefaultConfig EXCEPT
                            !.use_two_round_loading = (mode = "read_file")]
        /\ env = [NoEnv EXCEPT !.lines = SubSeq(DataFile, 1, n),
                               !.query_boundaries = qb]
        /\ stream = <<>>
        /\ args = [p \in 0..(M - 1) |-> Call("LoadFromFile", p, M)]
        /\ pc = [p \in 0..(M - 1) |-> mode]
        /\ loader = [p \in 0..(M - 1) |-> NewLoader]
        /\ reader = [p \in 0..(M - 1) |-> NewReader]
        /\ net = [p \in 0..(M - 1) |-> NewNet]
        /\ dataset = [p \in 0..(M - 1) |-> EmptyDataset]

\* The ranks read on different machines and share nothing but the seed, so
\* every interleaving of their passes ends in the same state: the passes are
\* explored one after the other, rank 0 first.
Turn(p) == \A q \in Procs : q < p => pc[q] \notin ReadModes

MemLineStep == \E p \in Procs : Turn(p) /\ LoadTextDataToMemoryLine(p)
FileLineStep == \E p \in Procs : Turn(p) /\ SampleTextDataFromFileLine(p)
BinRowStep == \E p \in Procs : Turn(p) /\ LoadFromBinFileRow(p)
EndOfFileStep == \E p \in Procs : Turn(p) /\ EndOfFile(p)

NextPartition == MemLineStep \/ FileLineStep \/ BinRowStep \/ EndOfFileStep

SpecPartition == InitPartition /\ [][NextPartition]_vars

----------------------------------------------------------------------------
(* DatasetLoader::SetHeader.  A resolution step maps the loader members to  *)
(* the members after the step; fatal is set when the step calls Log::Fatal. *)

name_prefix == <<"n", "a", "m", "e", ":">>

\* name2idx: the last header column that carries the name, if any
Name2Idx(names, name) ==
    LET hits == {i \in 0..(Len(names) - 1) : names[i + 1] = name}
    IN  IF hits = {} THEN [found |-> FALSE, idx |-> 0]
        ELSE [found |-> TRUE, idx |-> CHOOSE i \in hits : \A j \in hits : j <= i]

\* a role string to a column of the file: by header name or by number
ResolveColumn(str, names) ==
    IF StartsWith(str, name_prefix)
    THEN LET hit == Name2Idx(names, Substr(str, Len(name_prefix)))
         IN  [ok |-> hit.found, out |-> hit.idx]
    ELSE AtoiAndCheck(str)

\* skip for label column
SkipLabel(idx, label_idx_) == IF idx > label_idx_ THEN idx - 1 ELSE idx

HeaderNames == IF io_config.has_header THEN env.header ELSE <<>>

LoadLabelIdx(ld, names) ==
    IF Len(io_config.label_column) > 0
    THEN LET r == ResolveColumn(io_config.label_column, names)
         IN  IF r.ok THEN [ld EXCEPT !.label_idx_ = r.out]
             ELSE [ld EXCEPT !.fatal = TRUE]
    ELSE ld

\* feature_names_.erase(begin() + label_idx_): past the end the erase is
\* undefined, the vector is left as it is or loses its last name
EraseLabelName(feature_names_, label_idx_) ==
    IF Len(feature_names_) = 0 THEN {feature_names_}
    ELSE IF label_idx_ < Len(feature_names_)
         THEN {SubSeq(feature_names_, 1, label_idx_)
               \o SubSeq(feature_names_, label_idx_ + 2, Len(feature_names_))}
         ELSE {feature_names_, SubSeq(feature_names_, 1, Len(feature_names_) - 1)}

RECURSIVE LoadIgnoreTokens(_, _, _, _)
LoadIgnoreTokens(ld, tokens, names, by_name) ==
    IF tokens = <<>> \/ ld.fatal THEN ld
    ELSE LET r == IF by_name
                  THEN LET hit == Name2Idx(names, Head(tokens))
                       IN  [ok |-> hit.found, out |-> hit.idx]
                  ELSE AtoiAndCheck(Head(tokens))
         IN  IF r.ok
             THEN LoadIgnoreTokens(
                      [ld EXCEPT !.ignore_features_ = @ \cup {SkipLabel(r.out, ld.label_idx_)}],
                      Tail(tokens), names, by_name)
             ELSE [ld EXCEPT !.fatal = TRUE]

LoadIgnoreColumns(ld, names) ==
    IF Len(io_config.ignore_column) > 0
    THEN IF StartsWith(io_config.ignore_column, name_prefix)
         THEN LoadIgnoreTokens(ld, Split(Substr(io_config.ignore_column, Len(name_prefix)), ","),
                               names, TRUE)
         ELSE LoadIgnoreTokens(ld, Split(io_config.ignore_column, ","), names, FALSE)
    ELSE ld

LoadWeightIdx(ld, names) ==
    IF Len(io_config.weight_column) > 0
    THEN LET r == ResolveColumn(io_config.weight_column, names)
             idx == SkipLabel(r.out, ld.label_idx_)
         IN  IF r.ok THEN [ld EXCEPT !.weight_idx_ = idx, !.ignore_features_ = @ \cup {idx}]
             ELSE [ld EXCEPT !.fatal = TRUE]
    ELSE ld

LoadGroupIdx(ld, names) ==
    IF Len(io_config.group_column) > 0
    THEN LET r == ResolveColumn(io_config.group_column, names)
             idx == SkipLabel(r.out, ld.label_idx_)
         IN  IF r.ok THEN [ld EXCEPT !.group_idx_ = idx, !.ignore_features_ = @ \cup {idx}]
             ELSE [ld EXCEPT !.fatal = TRUE]
    ELSE ld

SetHeader(p) ==
    /\ pc[p] = "new"
    /\ LET start == [loader[p] EXCEPT !.feature_names_ =
                         IF io_config.has_header THEN env.header ELSE @] @@ [fatal |-> FALSE]
           labelled == LoadLabelIdx(start, HeaderNames)
       IN  IF labelled.fatal
           THEN /\ pc' = [pc EXCEPT ![p] = "fatal"]
                /\ UNCHANGED loader
           ELSE \E erased \in EraseLabelName(labelled.feature_names_, labelled.label_idx_) :
                  LET ignored == LoadIgnoreColumns([labelled EXCEPT !.feature_names_ = erased],
                                                   HeaderNames)
                      weighted == IF ignored.fatal THEN ignored
                                  ELSE LoadWeightIdx(ignored, HeaderNames)
                      grouped == IF weighted.fatal THEN weighted
                                 ELSE LoadGroupIdx(weighted, HeaderNames)
                  IN  /\ loader' = [loader EXCEPT ![p] =
                                       [f \in DOMAIN loader[p] |-> grouped[f]]]
                      /\ pc' = [pc EXCEPT ![p] = IF grouped.fatal THEN "fatal"
                                                 ELSE "header_set"]
    /\ UNCHANGED <<io_config, env, stream, args, reader, net, dataset>>

----------------------------------------------------------------------------
(* Feature extraction (ExtractFeaturesFromMemory, ExtractFeaturesFromFile)  *)
(* and the Dataset / Metadata calls around it.                              *)

\* Metadata::Init(num_data, ...): one label slot per row
MetadataInit(ds, num_data) ==
    [ds EXCEPT !.label = [k \in 1..num_data |-> 0], !.weights = {}, !.queries = {}]

PairsOf(rows, k) == {rows[k].pairs[j] : j \in 1..Len(rows[k].pairs)}

\* the loop body on row i = k - 1: label, then every pair to one destination
ExtractRows(ds, ld, rows) ==
    LET known(pr) == pr[1] < ds.num_total_features
        used(pr) == known(pr) /\ ds.used_feature_map[pr[1] + 1] >= 0
        K == 1..Len(rows)
    IN  [ds EXCEPT
           !.label = [k \in 1..Max(Len(@), Len(rows)) |->
                         IF k <= Len(rows) THEN rows[k].label ELSE @[k]],
           !.data = @ \cup UNION {{<<ds.used_feature_map[pr[1] + 1], k - 1, pr[2]>> :
                                      pr \in {q \in PairsOf(rows, k) : used(q)}} : k \in K},
           !.weights = @ \cup UNION {{<<k - 1, pr[2]>> :
                                      pr \in {q \in PairsOf(rows, k) :
                                                 known(q) /\ ~used(q) /\ q[1] = ld.weight_idx_}} :
                                    k \in K},
           !.queries = @ \cup UNION {{<<k - 1, pr[2]>> :
                                      pr \in {q \in PairsOf(rows, k) :
                                                 known(q) /\ ~used(q) /\ q[1] # ld.weight_idx_
                                                 /\ q[1] = ld.group_idx_}} :
                                    k \in K}]

\* ReadPartAndProcessParallel(used_data_indices) or ReadAllAndProcessParallel
LinesToProcess(lines, used_data_indices) ==
    IF Len(used_data_indices) > 0
    THEN [k \in 1..Len(used_data_indices) |-> lines[used_data_indices[k] + 1]]
    ELSE lines

\* Dataset::CopyFeatureMapperFrom
CopyFeatureMapperFrom(ds, train_data) ==
    [ds EXCEPT !.used_feature_map = train_data.used_feature_map,
               !.num_features = train_data.num_features,
               !.num_total_features = train_data.num_total_features,
               !.feature_names = train_data.feature_names,
               !.features = train_data.features]

\* Metadata::PartitionLabel and Feature::Feature(memory, num_all_data,
\* used_data_indices): an empty list keeps every row
KeepRows(ds, used_data_indices) ==
    IF Len(used_data_indices) = 0 THEN ds
    ELSE LET local(i) == CHOOSE k \in 1..Len(used_data_indices) : used_data_indices[k] = i
             kept == SeqRange(used_data_indices)
         IN  [ds EXCEPT
                !.label = [k \in 1..Len(used_data_indices) |-> @[used_data_indices[k] + 1]],
                !.data = {<<t[1], local(t[2]) - 1, t[3]>> : t \in {u \in @ : u[2] \in kept}},
                !.weights = {<<local(t[1]) - 1, t[2]>> : t \in {u \in @ : u[1] \in kept}},
                !.queries = {<<local(t[1]) - 1, t[2]>> : t \in {u \in @ : u[1] \in kept}}]

\* (mutant) only the row count is checked
CheckDatasetRowsOnly(ds) == ds.num_data > 0

\* CheckDataset: FALSE when it calls Log::Fatal
CheckDataset(ds) == ds.num_data > 0 /\ Len(ds.features) > 0

----------------------------------------------------------------------------
(* DatasetLoader::LoadFromFile and LoadFromFileAlignWithOtherDataset        *)

\* CheckCanLoadFromBin: env.bin is <<>> when no .bin file lies next to the
\* data file, else <<d>> with d the Dataset that was saved
CheckCanLoadFromBin == env.bin # <<>>

\* LoadFromBinFile up to the partition: header, feature map, names, metadata
BinHeader == [env.bin[1] EXCEPT !.features = <<>>, !.data = {}]

\* the guard of LoadFromFile on a query id in the data file
QueryIdInDataFile(ld) == ld.group_idx_ > 0

\* the entry of LoadFromFile, up to the first read of the data
LoadFromFile(p) ==
    /\ pc[p] = "header_set"
    /\ args[p].entry = "LoadFromFile"
    /\ IF PartitionNeeded(p) /\ QueryIdInDataFile(loader[p])
       THEN /\ pc' = [pc EXCEPT ![p] = "fatal"]
            /\ UNCHANGED <<reader, dataset>>
       ELSE /\ reader' = [reader EXCEPT ![p] = NewReader]
            /\ IF CheckCanLoadFromBin
               THEN /\ dataset' = [dataset EXCEPT ![p] = BinHeader]
                    /\ pc' = [pc EXCEPT ![p] = IF PartitionNeeded(p) THEN "read_bin"
                                               ELSE "bin_partitioned"]
               ELSE /\ dataset' = [dataset EXCEPT ![p] = EmptyDataset]
                    /\ pc' = [pc EXCEPT ![p] = IF io_config.use_two_round_loading
                                               THEN "read_file" ELSE "read_mem"]
    /\ UNCHANGED <<io_config, env, stream, args, loader, net>>

\* Random::Sample(n, k): k of the indices 0 .. n - 1, ascending
SampleIndices(n, k) == {idx \in SUBSET (0..(n - 1)) : Cardinality(idx) = k}

\* lines 160-162: num_data_ and SampleTextDataFromMemory
SampleTextDataFromMemory(p) ==
    /\ pc[p] = "mem_loaded"
    /\ args[p].entry = "LoadFromFile"
    /\ LET data == reader[p].text_data
           sample_cnt == Min(io_config.bin_construct_sample_cnt, Len(data))
       IN  \E idx \in SampleIndices(Len(data), sample_cnt) :
             LET sample_indices == SortedSeq(idx)
             IN  reader' = [reader EXCEPT ![p].sample_data =
                               [k \in 1..Len(sample_indices) |-> data[sample_indices[k] + 1]]]
    /\ dataset' = [dataset EXCEPT ![p].num_data = Len(reader[p].text_data)]
    /\ pc' = [pc EXCEPT ![p] = "bins"]
    /\ UNCHANGED <<io_config, env, stream, args, loader, net>>

\* lines 173-177: num_data_ after SampleTextDataFromFile
TwoRoundNumData(rd) ==
    IF Len(rd.used_data_indices) > 0 THEN Len(rd.used_data_indices)
    ELSE rd.num_global_data

SetNumDataAfterSample(p) ==
    /\ pc[p] = "file_sampled"
    /\ args[p].entry = "LoadFromFile"
    /\ dataset' = [dataset EXCEPT ![p].num_data = TwoRoundNumData(reader[p])]
    /\ pc' = [pc EXCEPT ![p] = "bins"]
    /\ UNCHANGED <<io_config, env, stream, args, loader, reader, net>>

\* Metadata::Init and ExtractFeaturesFromMemory / ExtractFeaturesFromFile
ExtractFeatures(p) ==
    /\ pc[p] = "assembled"
    /\ args[p].entry = "LoadFromFile"
    /\ LET rows == IF io_config.use_two_round_loading
                   THEN LinesToProcess(env.lines, reader[p].used_data_indices)
                   ELSE reader[p].text_data
       IN  dataset' = [dataset EXCEPT ![p] =
                          ExtractRows(MetadataInit(dataset[p], dataset[p].num_data),
                                      loader[p], rows)]
    /\ reader' = [reader EXCEPT ![p].text_data = <<>>]
    /\ pc' = [pc EXCEPT ![p] = "loaded"]
    /\ UNCHANGED <<io_config, env, stream, args, loader, net>>

\* LoadFromBinFile after the partition: num_data_, PartitionLabel, features
LoadFromBinFileFeatures(p) ==
    /\ pc[p] = "bin_partitioned"
    /\ LET used_data_indices == reader[p].used_data_indices
           saved == [env.bin[1] EXCEPT !.num_data =
                        IF PartitionNeeded(p) THEN Len(used_data_indices) ELSE @]
       IN  dataset' = [dataset EXCEPT ![p] =
                          [KeepRows(saved, used_data_indices)
                               EXCEPT !.is_loading_from_binfile = TRUE]]
    /\ pc' = [pc EXCEPT ![p] = "loaded"]
    /\ UNCHANGED <<io_config, env, stream, args, loader, reader, net>>

\* lines 193-196: Metadata::CheckOrPartition, CheckDataset, return
CheckAndReturn(p) ==
    /\ pc[p] = "loaded"
    /\ args[p].entry = "LoadFromFile"
    /\ pc' = [pc EXCEPT ![p] = IF CheckDataset(dataset[p]) THEN "done" ELSE "fatal_check"]
    /\ UNCHANGED <<io_config, env, stream, args, loader, reader, net, dataset>>

\* the entry of LoadFromFileAlignWithOtherDataset; the two-round branch
\* counts the lines, copies the feature mappers and extracts at once
LoadFromFileAlignWithOtherDataset(p) ==
    /\ pc[p] = "header_set"
    /\ args[p].entry = "LoadFromFileAlignWithOtherDataset"
    /\ IF CheckCanLoadFromBin
       THEN /\ dataset' = [dataset EXCEPT ![p] = BinHeader]
            /\ reader' = [reader EXCEPT ![p] = NewReader]
            /\ pc' = [pc EXCEPT ![p] = "bin_partitioned"]
       ELSE IF ~io_config.use_two_round_loading
            THEN /\ dataset' = [dataset EXCEPT ![p] = EmptyDataset]
                 /\ reader' = [reader EXCEPT ![p] = NewReader]
                 /\ pc' = [pc EXCEPT ![p] = "read_mem"]
            ELSE LET num_data == Len(env.lines)
                     ds == CopyFeatureMapperFrom(
                               MetadataInit([EmptyDataset EXCEPT !.num_data = num_data],
                                            num_data),
                               env.train_data)
                 IN  /\ reader' = [reader EXCEPT ![p] =
                                      [NewReader EXCEPT !.num_global_data = num_data]]
                     /\ dataset' = [dataset EXCEPT ![p] =
                                       ExtractRows(ds, loader[p],
                                                   LinesToProcess(env.lines, <<>>))]
                     /\ pc' = [pc EXCEPT ![p] = "loaded"]
    /\ UNCHANGED <<io_config, env, stream, args, loader, net>>

\* lines 217-223: num_data_, Metadata::Init, CopyFeatureMapperFrom and
\* ExtractFeaturesFromMemory
AlignInMemory(p) ==
    /\ pc[p] = "mem_loaded"
    /\ args[p].entry = "LoadFromFileAlignWithOtherDataset"
    /\ LET num_data == Len(reader[p].text_data)
           ds == CopyFeatureMapperFrom(
                     MetadataInit([dataset[p] EXCEPT !.num_data = num_data], num_data),
                     env.train_data)
       IN  dataset' = [dataset EXCEPT ![p] = ExtractRows(ds, loader[p], reader[p].text_data)]
    /\ reader' = [reader EXCEPT ![p].text_data = <<>>]
    /\ pc' = [pc EXCEPT ![p] = "loaded"]
    /\ UNCHANGED <<io_config, env, stream, args, loader, net>>

\* lines 243-244: Metadata::CheckOrPartition, return
AlignReturn(p) ==
    /\ pc[p] = "loaded"
    /\ args[p].entry = "LoadFromFileAlignWithOtherDataset"
    /\ pc' = [pc EXCEPT ![p] = "done"]
    /\ UNCHANGED <<io_config, env, stream, args, loader, reader, net, dataset>>

----------------------------------------------------------------------------
(* SpecLoad: the ranks of one training job call SetHeader and LoadFromFile  *)
(* on the same data file; one more loader (the last process) loads the file *)
(* as validation data, aligned with a Dataset built earlier.                *)

Role(has_header, label_column, weight_column, group_column, ignore_column) ==
    [has_header |-> has_header, label_column |-> label_column,
     weight_column |-> weight_column, group_column |-> group_column,
     ignore_column |-> ignore_column]

FileHeader == << <<"y">>, <<"q">>, <<"a">>, <<"b">> >>

NoRoles == Role(FALSE, <<>>, <<>>, <<>>, <<>>)

\* the role strings of the catalogue: none; the query id in the first, in
\* the second feature column; label, weight and ignore given by name
RoleChoices ==
    { NoRoles,
      Role(FALSE, <<>>, <<>>, <<"1">>, <<>>),
      Role(FALSE, <<>>, <<>>, <<"2">>, <<>>),
      Role(TRUE, name_prefix \o <<"y">>, name_prefix \o <<"b">>, <<>>, name_prefix \o <<"a">>) }

\* a Dataset as one machine builds it from a sample and the rows of a file
BuiltDataset(sample_data, lines) ==
    LET sample_values == BuildSampleValues(sample_data)
        names == FillFeatureNames(<<>>, Len(sample_values))
        ds == StartDataset([EmptyDataset EXCEPT !.num_data = Len(lines)],
                           sample_values, names)
        built == FinishFeatures(AssembleLocal(ds,
                     LocalBinMappers(sample_values, Len(sample_data),
                                     DefaultConfig.max_bin, {}), 0))
    IN  ExtractRows(MetadataInit(built, Len(lines)), NewLoader, lines)

TrainData == BuiltDataset(<<LineB, LineC>>, <<LineB, LineC>>)

\* the .bin file next to the data file was saved from the data file
SavedBin(lines) == BuiltDataset(<<LineD, LineA, LineC>>, lines)

Aligner == CHOOSE p \in Procs : \A q \in Procs : q <= p

InitLoad ==
    \E M \in 1..MaxMachines, role \in RoleChoices, two_round \in BOOLEAN,
       pre \in BOOLEAN, has_bin \in BOOLEAN, n \in {0, MaxLines}, with_queries \in BOOLEAN :
        /\ role # NoRoles => ~has_bin /\ n > 0 /\ ~with_queries /\ M > 1 /\ ~pre
        /\ pre => M > 1
        /\ with_queries => n > 1
        /\ io_config = [DefaultConfig EXCEPT
                            !.has_header = role.has_header,
                            !.label_column = role.label_column,
                            !.weight_column = role.weight_column,
                            !.group_column = role.group_column,
                            !.ignore_column = role.ignore_column,
                            !.bin_construct_sample_cnt = 2,
                            !.use_two_round_loading = two_round,
                            !.is_pre_partition = pre]
        /\ env = [header |-> IF role.has_header THEN FileHeader ELSE <<>>,
                  lines |-> SubSeq(DataFile, 1, n),
                  query_boundaries |-> IF with_queries THEN <<0, 1, n>> ELSE <<>>,
                  bin |-> IF has_bin THEN <<SavedBin(SubSeq(DataFile, 1, n))>> ELSE <<>>,
                  train_data |-> TrainData]
        /\ stream = <<>>
        /\ args = [p \in 0..M |-> IF p < M THEN Call("LoadFromFile", p, M)
                                  ELSE Call("LoadFromFileAlignWithOtherDataset", 0, 1)]
        /\ pc = [p \in 0..M |-> "new"]
        /\ loader = [p \in 0..M |-> NewLoader]
        /\ reader = [p \in 0..M |-> NewReader]
        /\ net = [p \in 0..M |-> NewNet]
        /\ dataset = [p \in 0..M |-> EmptyDataset]

AllEntered(p) ==
    \A r \in 0..(args[p].num_machines - 1) :
        \E q \in Job(p) : args[q].rank = r /\ net[q].entered

\* process q cannot take a step before another process does
Stopped(q) ==
    \/ pc[q] \in {"done", "fatal", "fatal_check"}
    \/ pc[q] = "allgather" /\ ~AllEntered(q)

\* The loaders run on different machines and meet in the Allgather only, so
\* every interleaving of their steps ends in the same state: the validation
\* loader is explored first, then the ranks in turn, each as far as it gets.
LoadTurn(p) ==
    \A q \in Procs : (q = Aligner /\ p # Aligner) \/ (q < p /\ p # Aligner) => Stopped(q)

SetHeaderStep == \E p \in Procs : LoadTurn(p) /\ SetHeader(p)
LoadFromFileStep == \E p \in Procs : LoadTurn(p) /\ LoadFromFile(p)
ReadAllLinesStep == \E p \in Procs : LoadTurn(p) /\ LoadTextDataToMemoryAll(p)
ReadAndFilterStep == \E p \in Procs : LoadTurn(p) /\ LoadTextDataToMemoryLine(p)
SampleFromFileStep == \E p \in Procs : LoadTurn(p) /\ SampleTextDataFromFileLine(p)
BinPartitionStep == \E p \in Procs : LoadTurn(p) /\ LoadFromBinFileRow(p)
EndOfReadStep == \E p \in Procs : LoadTurn(p) /\ EndOfFile(p)
SampleFromMemoryStep == \E p \in Procs : LoadTurn(p) /\ SampleTextDataFromMemory(p)
NumDataStep == \E p \in Procs : LoadTurn(p) /\ SetNumDataAfterSample(p)
BinsStep == \E p \in Procs : LoadTurn(p) /\ ConstructBinMappersFromTextData(p)
RestoreStep == \E p \in Procs : LoadTurn(p) /\ AllgatherAndRestore(p)
ExtractStep == \E p \in Procs : LoadTurn(p) /\ ExtractFeatures(p)
BinFeaturesStep == \E p \in Procs : LoadTurn(p) /\ LoadFromBinFileFeatures(p)
CheckStep == \E p \in Procs : LoadTurn(p) /\ CheckAndReturn(p)
AlignStep == \E p \in Procs : LoadTurn(p) /\ LoadFromFileAlignWithOtherDataset(p)
AlignInMemoryStep == \E p \in Procs : LoadTurn(p) /\ AlignInMemory(p)
AlignReturnStep == \E p \in Procs : LoadTurn(p) /\ AlignReturn(p)

NextLoad ==
    \/ SetHeaderStep \/ LoadFromFileStep \/ ReadAllLinesStep \/ ReadAndFilterStep
    \/ SampleFromFileStep \/ BinPartitionStep \/ EndOfReadStep \/ SampleFromMemoryStep
    \/ NumDataStep \/ BinsStep \/ RestoreStep \/ ExtractStep \/ BinFeaturesStep
    \/ CheckStep \/ AlignStep \/ AlignInMemoryStep \/ AlignReturnStep

SpecLoad == InitLoad /\ [][NextLoad]_vars

----------------------------------------------------------------------------
(* SpecHeader: one loader on one machine resolves the role strings of its   *)
(* configuration, then builds up to two Datasets, each from a sample of its *)
(* own, from text or through CostructFromSampleData.                        *)

LabelChoices == {<<>>, <<"1">>, <<"4">>, name_prefix \o <<"y">>, name_prefix \o <<"z">>}

WeightChoices == {<<>>, <<"0">>, <<"2">>, <<"-", "1">>, name_prefix \o <<"b">>}

GroupChoices == {<<>>, <<"1">>, <<"3">>, name_prefix \o <<"q">>}

IgnoreColumnChoices ==
    {<<>>, <<"2">>, <<"1", ",", "7">>, name_prefix \o <<"a", ",", "b">>}

\* the samples a caller hands to the loader of SpecHeader
HeaderSamples == {<<>>, <<LineA, LineB>>, <<LineD, LineA, LineC>>}

InitHeader ==
    \E has_header \in BOOLEAN, label \in LabelChoices, weight \in WeightChoices,
       group \in GroupChoices, ignore \in IgnoreColumnChoices :
        /\ io_config = [DefaultConfig EXCEPT
                            !.has_header = has_header,
                            !.label_column = label,
                            !.weight_column = weight,
                            !.group_column = group,
                            !.ignore_column = ignore,
                            !.bin_construct_sample_cnt = 3]
        /\ env = [NoEnv EXCEPT !.header = IF has_header THEN FileHeader ELSE <<>>]
        /\ stream = <<>>
        /\ args = [p \in {0} |-> Call("LoadFromFile", 0, 1)]
        /\ pc = [p \in {0} |-> "new"]
        /\ loader = [p \in {0} |-> NewLoader]
        /\ reader = [p \in {0} |-> NewReader]
        /\ net = [p \in {0} |-> NewNet]
        /\ dataset = [p \in {0} |-> EmptyDataset]

\* the caller starts another Dataset with the same loader: a new Dataset
\* and the sample of the file it is built from
TakeSample(p) ==
    /\ pc[p] \in {"header_set", "assembled"}
    /\ reader[p].calls \in {0, 1}
    /\ \E sample_data \in HeaderSamples, from_text \in BOOLEAN :
          /\ reader' = [reader EXCEPT ![p] =
                            [NewReader EXCEPT !.sample_data = sample_data,
                                              !.calls = reader[p].calls + 1]]
          /\ pc' = [pc EXCEPT ![p] = IF from_text THEN "bins" ELSE "sample"]
    /\ dataset' = [dataset EXCEPT ![p] = EmptyDataset]
    /\ UNCHANGED <<io_config, env, stream, args, loader, net>>

ResolveStep == \E p \in Procs : SetHeader(p)
TakeSampleStep == \E p \in Procs : TakeSample(p)
FromTextStep == \E p \in Procs : ConstructBinMappersFromTextData(p)
FromSampleStep == \E p \in Procs : CostructFromSampleData(p)

NextHeader == ResolveStep \/ TakeSampleStep \/ FromTextStep \/ FromSampleStep

SpecHeader == InitHeader /\ [][NextHeader]_vars

----------------------------------------------------------------------------
(* SpecReload: two freshly constructed loaders with the same seed stand for *)
(* the same rank of one job; process 0 reads the text file into memory,     *)
(* process 1 loads the .bin file that was saved from it.                    *)

TextLoader == CHOOSE p \in Procs : args[p].entry = "LoadTextDataToMemory"

BinLoader == CHOOSE p \in Procs : args[p].entry = "LoadFromBinFile"

InitReload ==
    \E M \in 2..MaxMachines, n \in 0..MaxLines,
       qb \in {<<>>} \cup (Boundaries(MaxLines) \ {<<0>>}) :
      \E rank \in 0..(M - 1) :
        /\ io_config = DefaultConfig
        /\ env = [NoEnv EXCEPT !.lines = SubSeq(DataFile, 1, n),
                               !.query_boundaries = qb,
                               !.bin = <<SavedBin(SubSeq(DataFile, 1, n))>>]
        /\ stream = <<>>
        /\ args = <<Call("LoadTextDataToMemory", rank, M), Call("LoadFromBinFile", rank, M)>>
        /\ pc = <<"read_mem", "read_bin">>
        /\ loader = <<NewLoader, NewLoader>>
        /\ reader = <<NewReader, NewReader>>
        /\ net = <<NewNet, NewNet>>
        /\ dataset = <<EmptyDataset, BinHeader>>

ReloadFeaturesStep == \E p \in Procs : Turn(p) /\ LoadFromBinFileFeatures(p)

NextReload == MemLineStep \/ BinRowStep \/ EndOfFileStep \/ ReloadFeaturesStep

SpecReload == InitReload /\ [][NextReload]_vars

----------------------------------------------------------------------------
(* SpecShard: the loop of ConstructBinMappersFromTextData that fills the    *)
(* vectors start and len, for every total_num_feature and num_machines.     *)
(* The vectors and the loop counter i are the locals of the one process.    *)

ShardLocals(num_machines) ==
    [start |-> [k \in 1..num_machines |-> 0],
     len |-> [k \in 1..num_machines |-> 0],
     i |-> 0]

\* one iteration of  for (i = 0; i < num_machines - 1; ++i)
ShardLoopBody(p) ==
    /\ pc[p] = "shards"
    /\ reader[p].i < args[p].num_machines - 1
    /\ LET i == reader[p].i
           total_num_feature == dataset[p].num_total_features
           step == ShardStep(total_num_feature, args[p].num_machines)
           len_i == Min(step, total_num_feature - reader[p].start[i + 1])
       IN  reader' = [reader EXCEPT ![p].len[i + 1] = len_i,
                                    ![p].start[i + 2] = reader[p].start[i + 1] + len_i,
                                    ![p].i = i + 1]
    /\ UNCHANGED <<io_config, env, stream, args, pc, loader, net, dataset>>

\* len[num_machines - 1] = total_num_feature - start[num_machines - 1]
ShardLoopEnd(p) ==
    /\ pc[p] = "shards"
    /\ ~(reader[p].i < args[p].num_machines - 1)
    /\ LET num_machines == args[p].num_machines
       IN  reader' = [reader EXCEPT ![p].len[num_machines] =
                          dataset[p].num_total_features - reader[p].start[num_machines]]
    /\ pc' = [pc EXCEPT ![p] = "sharded"]
    /\ UNCHANGED <<io_config, env, stream, args, loader, net, dataset>>

InitShard ==
    \E total_num_feature \in 0..MaxTotalFeature, num_machines \in 1..MaxRanks :
        /\ io_config = DefaultConfig
        /\ env = NoEnv
        /\ stream = <<>>
        /\ args = <<Call("LoadFromFile", 0, num_machines)>>
        /\ pc = <<"shards">>
        /\ loader = <<NewLoader>>
        /\ reader = <<ShardLocals(num_machines)>>
        /\ net = <<NewNet>>
        /\ dataset = <<[EmptyDataset EXCEPT !.num_total_features = total_num_feature]>>

ShardLoopStep == \E p \in Procs : ShardLoopBody(p)

ShardEndStep == \E p \in Procs : ShardLoopEnd(p)

NextShard == ShardLoopStep \/ ShardEndStep

SpecShard == InitShard /\ [][NextShard]_vars

----------------------------------------------------------------------------
(* SpecExtract: on one machine a loader builds a training Dataset from the  *)
(* text file and another loader, with the same configuration, builds a      *)
(* validation Dataset from it, aligned with a train_data that was built     *)
(* from a wide or from a narrow file.                                       *)

\* a training file with one feature column
NarrowFile == <<LineA, Line(1, << <<0, 2>> >>)>>

NarrowTrainData == BuiltDataset(NarrowFile, NarrowFile)

InitExtract ==
    \E role \in RoleChoices, two_round \in BOOLEAN, n \in 1..MaxLines,
       train_data \in {TrainData, NarrowTrainData} :
        /\ io_config = [DefaultConfig EXCEPT
                            !.has_header = role.has_header,
                            !.label_column = role.label_column,
                            !.weight_column = role.weight_column,
                            !.group_column = role.group_column,
                            !.ignore_column = role.ignore_column,
                            !.bin_construct_sample_cnt = MaxLines,
                            !.use_two_round_loading = two_round]
        /\ env = [NoEnv EXCEPT !.header = IF role.has_header THEN FileHeader ELSE <<>>,
                               !.lines = SubSeq(DataFile, 1, n),
                               !.train_data = train_data]
        /\ stream = <<>>
        /\ args = [p \in {0, 1} |-> IF p = 0 THEN Call("LoadFromFile", 0, 1)
                                    ELSE Call("LoadFromFileAlignWithOtherDataset", 0, 1)]
        /\ pc = [p \in {0, 1} |-> "new"]
        /\ loader = [p \in {0, 1} |-> NewLoader]
        /\ reader = [p \in {0, 1} |-> NewReader]
        /\ net = [p \in {0, 1} |-> NewNet]
        /\ dataset = [p \in {0, 1} |-> EmptyDataset]

NextExtract ==
    \/ SetHeaderStep \/ LoadFromFileStep \/ ReadAllLinesStep \/ SampleFromFileStep
    \/ EndOfReadStep \/ SampleFromMemoryStep \/ NumDataStep \/ BinsStep
    \/ ExtractStep \/ CheckStep \/ AlignStep \/ AlignInMemoryStep \/ AlignReturnStep

SpecExtract == InitExtract /\ [][NextExtract]_vars

----------------------------------------------------------------------------
(* Properties of the assembled bin mappers                                  *)

Assembled(p) == pc[p] = "assembled"

JobRanks == {p \in Procs : args[p].num_machines > 1}

Alone == {p \in Procs : args[p].num_machines = 1}

KeptColumns(ds) == {c \in 0..(Len(ds.used_feature_map) - 1) : ds.used_feature_map[c + 1] >= 0}

SampleValuesOf(p) == BuildSampleValues(reader[p].sample_data)

\* C2: after bin-mapper assembly by any of the three construction paths,
\* used_feature_map has length num_total_features, exactly num_features of
\* its entries are non-negative, in ascending column order they read
\* 0, 1, ..., num_features - 1, and num_features is the number of Features.
C2_UsedFeatureMapContiguous ==
    \A p \in Procs : Assembled(p) =>
        LET ds == dataset[p]
        IN  /\ Len(ds.used_feature_map) = ds.num_total_features
            /\ Cardinality(KeptColumns(ds)) = ds.num_features
            /\ \A c \in KeptColumns(ds) :
                   ds.used_feature_map[c + 1] =
                       Cardinality({b \in KeptColumns(ds) : b < c})
            /\ ds.num_features = Len(ds.features)

C2_Witness ==
    \E p \in JobRanks, q \in Alone :
        /\ Assembled(p) /\ Assembled(q)
        /\ args[q].entry = "CostructFromSampleData"
        /\ dataset[q].num_features >= 2
        /\ dataset[p].num_features >= 2
        /\ \E b \in 0..(dataset[p].num_total_features - 1), c \in KeptColumns(dataset[p]) :
               b < c /\ dataset[p].used_feature_map[b + 1] = -1

\* the BinMapper a process obtained for column c: found locally on one
\* machine, read back from output_buffer on several
ObtainedMapper(p, c) ==
    IF args[p].num_machines = 1
    THEN FindBin(SampleValuesOf(p)[c + 1], Len(reader[p].sample_data), io_config.max_bin)
    ELSE CopyFrom(net[p].output_buffer, c * SizeForSpecificBin(io_config.max_bin))

\* C3: in ConstructBinMappersFromTextData, on one machine and on several, a
\* column c has used_feature_map[c] >= 0 iff c is not in ignore_features and
\* the BinMapper obtained for c is not trivial; no kept Feature owns a
\* trivial BinMapper and no ignored column is kept.
C3_KeptIffUsedAndNonTrivial ==
    \A p \in Procs : (Assembled(p) /\ args[p].entry = "LoadFromFile") =>
        LET ds == dataset[p]
        IN  /\ \A c \in 0..(ds.num_total_features - 1) :
                   (ds.used_feature_map[c + 1] >= 0) <=>
                       (/\ c \notin loader[p].ignore_features_
                        /\ ~is_trival(ObtainedMapper(p, c)))
            /\ \A k \in 1..Len(ds.features) :
                   /\ ~is_trival(ds.features[k].bin_mapper)
                   /\ ds.features[k].feature_idx \notin loader[p].ignore_features_

C3_Witness ==
    \E p \in JobRanks, q \in Alone :
        /\ Assembled(p) /\ Assembled(q) /\ args[q].entry = "LoadFromFile"
        /\ \A d \in {p, q} :
              /\ \E c \in 0..(dataset[d].num_total_features - 1) :
                     c \in loader[d].ignore_features_ /\ ~is_trival(ObtainedMapper(d, c))
              /\ \E c \in 0..(dataset[d].num_total_features - 1) :
                     c \notin loader[d].ignore_features_ /\ is_trival(ObtainedMapper(d, c))
              /\ dataset[d].num_features >= 1

\* the ranks whose shard [start, start + len) contains column c
ShardOwners(c, total_num_feature, num_machines) ==
    {r \in 0..(num_machines - 1) :
        /\ ShardStart(r, total_num_feature, num_machines) <= c
        /\ c < ShardStart(r, total_num_feature, num_machines)
                 + ShardLen(r, total_num_feature, num_machines)}

AgreeOnTotalNumFeature ==
    \A p, q \in JobRanks : Len(SampleValuesOf(p)) = Len(SampleValuesOf(q))

\* C9: after the multi-machine path, on ranks that agree on num_machines,
\* max_bin, total_num_feature and ignore_features, every rank deserializes
\* for each column c the BinMapper built by the single rank whose shard
\* contains c, and all ranks end with the same used_feature_map,
\* num_features and per-feature BinMappers, also when their samples differ.
C9_RanksAgreeAfterAllgather ==
    AgreeOnTotalNumFeature =>
        \A p \in JobRanks : Assembled(p) =>
            /\ \A c \in 0..(dataset[p].num_total_features - 1) :
                   LET owners == ShardOwners(c, dataset[p].num_total_features,
                                             args[p].num_machines)
                   IN  /\ Cardinality(owners) = 1
                       /\ \A r \in owners :
                              LET q == RankProc(JobRanks, r)
                              IN  CopyFrom(net[p].output_buffer,
                                           c * SizeForSpecificBin(io_config.max_bin))
                                  = FindBin(SampleValuesOf(q)[c + 1],
                                            Len(reader[q].sample_data), io_config.max_bin)
            /\ \A q \in JobRanks : Assembled(q) =>
                   /\ dataset[q].used_feature_map = dataset[p].used_feature_map
                   /\ dataset[q].num_features = dataset[p].num_features
                   /\ dataset[q].features = dataset[p].features

C9_Witness ==
    /\ AgreeOnTotalNumFeature
    /\ \A p \in JobRanks : Assembled(p) /\ dataset[p].num_features >= 2
    /\ \E p, q \in JobRanks :
          /\ reader[p].sample_data # reader[q].sample_data
          /\ \E c \in 0..(dataset[p].num_total_features - 1) :
                 c \notin loader[p].ignore_features_
                 /\ FindBin(SampleValuesOf(p)[c + 1], Len(reader[p].sample_data),
                            io_config.max_bin)
                    # FindBin(SampleValuesOf(q)[c + 1], Len(reader[q].sample_data),
                              io_config.max_bin)

SameSampleEverywhere ==
    \A p, q \in Procs : reader[p].sample_data = reader[q].sample_data

\* C10: given the same sample lines, max_bin and ignore_features, the
\* multi-machine path (any rank, after the Allgather) produces the same
\* BinMapper for every non-dropped column, and the same used_feature_map and
\* num_features, as the single-machine path.
C10_MultiMachineEqualsSingle ==
    SameSampleEverywhere =>
        \A p \in JobRanks, q \in Alone :
            (Assembled(p) /\ Assembled(q) /\ args[q].entry = "LoadFromFile") =>
                /\ dataset[p].used_feature_map = dataset[q].used_feature_map
                /\ dataset[p].num_features = dataset[q].num_features
                /\ dataset[p].features = dataset[q].features

C10_Witness ==
    /\ SameSampleEverywhere
    /\ \A p \in Procs : Assembled(p) /\ args[p].entry = "LoadFromFile"
    /\ \E p \in JobRanks :
          /\ dataset[p].num_features >= 2
          /\ dataset[p].num_features < dataset[p].num_total_features


----------------------------------------------------------------------------
(* Properties of the partition                                              *)

PassDone(p) == pc[p] \in {"mem_loaded", "file_sampled", "bin_partitioned"}

Kept(p) == SeqRange(reader[p].used_data_indices)

\* C7: in a distributed, non-pre-partitioned text load where all ranks use
\* the same seed, the k-th partition decision of every rank consumes the
\* k-th draw of the generator, as a single linear pass over the rows or the
\* groups would, in LoadTextDataToMemory and in SampleTextDataFromFile; so
\* every row of the file is kept by exactly one rank.
C7_LinearPassDraws ==
    (\A p \in Procs : args[p].entry = "LoadFromFile" /\ PartitionNeeded(p)
                      /\ pc[p] \in {"read_mem", "read_file", "mem_loaded", "file_sampled"}) =>
        /\ \A p \in Procs : \A k \in 1..Len(reader[p].decisions) :
               reader[p].decisions[k].draw = k - 1
        /\ (\A p \in Procs : PassDone(p)) =>
               \A i \in 0..(Len(env.lines) - 1) :
                   Cardinality({p \in Procs : i \in Kept(p)}) = 1

NumQueries == Len(env.query_boundaries) - 1

\* the query of row i, when the boundaries declare one
QueryOf(i) ==
    CHOOSE g \in 0..(NumQueries - 1) :
        env.query_boundaries[g + 1] <= i /\ i < env.query_boundaries[g + 2]

RowsFitQueries ==
    /\ env.query_boundaries # <<>>
    /\ Len(env.lines) = env.query_boundaries[NumQueries + 1]

\* C8: with query_boundaries strictly increasing from 0 and the rows
\* numbered 0 .. query_boundaries[num_queries] - 1, the group predicate
\* draws from the generator exactly once per group, at the group's first
\* row, and returns the same decision for every row of the group: the kept
\* rows are a union of whole groups.
C8_WholeGroups ==
    RowsFitQueries =>
        \A p \in Procs : PartitionNeeded(p) =>
            LET rd == reader[p]
            IN  /\ pc[p] # "fatal"
                /\ \A k \in 1..Len(rd.decisions) :
                       rd.decisions[k].line_idx = env.query_boundaries[k]
                /\ Len(rd.decisions) =
                       Cardinality({g \in 0..(NumQueries - 1) :
                                       env.query_boundaries[g + 1] < rd.line_idx})
                /\ \A i \in 0..(rd.line_idx - 1) :
                       (i \in Kept(p)) <=> rd.decisions[QueryOf(i) + 1].keep
                /\ PassDone(p) =>
                       /\ Len(rd.decisions) = NumQueries
                       /\ \A g \in 0..(NumQueries - 1) :
                              LET rows == env.query_boundaries[g + 1]
                                              ..(env.query_boundaries[g + 2] - 1)
                              IN  rows \subseteq Kept(p) \/ rows \cap Kept(p) = {}

C8_Witness ==
    /\ RowsFitQueries
    /\ NumQueries >= 2
    /\ \E p \in Procs :
          /\ PartitionNeeded(p) /\ PassDone(p)
          /\ \E g \in 0..(NumQueries - 1) :
                 /\ env.query_boundaries[g + 2] - env.query_boundaries[g + 1] >= 2
                 /\ reader[p].decisions[g + 1].keep
          /\ \E g \in 0..(NumQueries - 1) : ~reader[p].decisions[g + 1].keep

----------------------------------------------------------------------------
(* Properties of LoadFromFile and LoadFromFileAlignWithOtherDataset         *)

Trainers == {p \in Procs : args[p].entry = "LoadFromFile"}

Validators == {p \in Procs : args[p].entry = "LoadFromFileAlignWithOtherDataset"}

\* C1: LoadFromFile aborts with a fatal error, before reading any data,
\* whenever num_machines > 1, is_pre_partition is false and a group column
\* has been resolved from the data file, whatever the resolved index,
\* post-label-removal index 0 included.
C1_GroupColumnAborts ==
    \A p \in Trainers :
        (/\ PartitionNeeded(p)
         /\ loader[p].group_idx_ # NO_SPECIFIC
         /\ pc[p] \notin {"new", "header_set"}) =>
            /\ pc[p] = "fatal"
            /\ reader[p] = NewReader

\* C4: every Dataset LoadFromFile returns (in-memory, two-round or binary
\* path) has num_data > 0 and at least one Feature, and the call aborts in
\* CheckDataset exactly when the Dataset it has loaded lacks either;
\* LoadFromFileAlignWithOtherDataset never aborts on that check.
C4_ReturnedDatasetChecked ==
    /\ \A p \in Trainers :
          /\ pc[p] = "done" => dataset[p].num_data > 0 /\ Len(dataset[p].features) >= 1
          /\ pc[p] = "fatal_check" =>
                 dataset[p].num_data <= 0 \/ Len(dataset[p].features) = 0
    /\ \A p \in Validators : pc[p] # "fatal_check"

\* LoadFromFile was stopped by the check on a file from which the
\* validation loader returned a Dataset that fails the check
C4_Witness ==
    /\ \E p \in Trainers : pc[p] = "fatal_check"
    /\ \E p \in Validators : pc[p] = "done" /\ ~CheckDataset(dataset[p])

\* the labels of the rows the rank's predicate accepted
AcceptedLabels(p) ==
    [k \in 1..Len(reader[p].used_data_indices) |->
        env.lines[reader[p].used_data_indices[k] + 1].label]

\* C5: after a text-path LoadFromFile with num_machines > 1 and
\* is_pre_partition false, num_data is the number of rows the rank's
\* predicate accepted and only those rows are materialized, in-memory and
\* two-round, for every number of accepted rows, zero included; otherwise
\* num_data is the total row count.
C5_NumDataIsAcceptedRows ==
    \A p \in Trainers :
        (pc[p] \in {"loaded", "done"} /\ ~dataset[p].is_loading_from_binfile) =>
            IF PartitionNeeded(p)
            THEN /\ dataset[p].num_data = Len(reader[p].used_data_indices)
                 /\ dataset[p].label = AcceptedLabels(p)
            ELSE dataset[p].num_data = Len(env.lines)

\* C6: whichever branch LoadFromFileAlignWithOtherDataset takes (in-memory
\* text, two-round text, .bin file), the returned Dataset has the
\* used_feature_map, the feature_names and the BinMappers of train_data, and
\* holds every row of the validation file.
C6_AlignedWithTrainData ==
    \A p \in Validators :
        pc[p] = "done" =>
            /\ dataset[p].used_feature_map = env.train_data.used_feature_map
            /\ dataset[p].feature_names = env.train_data.feature_names
            /\ dataset[p].features = env.train_data.features
            /\ dataset[p].num_data = Len(env.lines)
            /\ Len(dataset[p].label) = Len(env.lines)

----------------------------------------------------------------------------
(* Properties of SetHeader                                                  *)

\* the post-label-removal index of the original column c
PostRemoval(c, label_idx) == IF c < label_idx THEN c ELSE c - 1

\* the original column a role string resolves to
ColumnOf(str) == ResolveColumn(str, HeaderNames).out

\* the tokens of ignore_column, each as a role string of its own
IgnoreTokens ==
    IF StartsWith(io_config.ignore_column, name_prefix)
    THEN LET names == Split(Substr(io_config.ignore_column, Len(name_prefix)), ",")
         IN  {name_prefix \o names[k] : k \in 1..Len(names)}
    ELSE SeqRange(Split(io_config.ignore_column, ","))

\* C11: after SetHeader, the weight column, the group column and every
\* ignore_column token that resolves to an original column c other than
\* label_idx is stored as c when c < label_idx and as c - 1 when
\* c > label_idx; with a header, feature_names_[i] is the header name of the
\* column whose post-removal index is i.
C11_PostRemovalIndices ==
    \A p \in Procs : pc[p] = "header_set" =>
        LET ld == loader[p]
            others == {c \in 0..(Len(env.header) - 1) : c # ld.label_idx_}
        IN  /\ (io_config.weight_column # <<>> /\ ColumnOf(io_config.weight_column) # ld.label_idx_)
                   => ld.weight_idx_ = PostRemoval(ColumnOf(io_config.weight_column), ld.label_idx_)
            /\ (io_config.group_column # <<>> /\ ColumnOf(io_config.group_column) # ld.label_idx_)
                   => ld.group_idx_ = PostRemoval(ColumnOf(io_config.group_column), ld.label_idx_)
            /\ \A token \in IgnoreTokens :
                   ColumnOf(token) # ld.label_idx_
                       => PostRemoval(ColumnOf(token), ld.label_idx_) \in ld.ignore_features_
            /\ io_config.has_header =>
                   /\ Len(ld.feature_names_) = Cardinality(others)
                   /\ \A c \in others :
                          ld.feature_names_[PostRemoval(c, ld.label_idx_) + 1] = env.header[c + 1]

\* C12: whenever SetHeader and then ConstructBinMappersFromTextData accept
\* the configuration, every element of ignore_features_ lies in
\* [0, num_total_features), weight_idx_ is in ignore_features_ when a weight
\* column is configured and group_idx_ is when a group column is.
C12_IgnoreFeaturesInRange ==
    [][\A p \in Procs :
          (pc[p] = "bins" /\ pc'[p] \in {"assembled", "allgather"}) =>
              /\ \A c \in loader'[p].ignore_features_ :
                     0 <= c /\ c < dataset'[p].num_total_features
              /\ io_config.weight_column # <<>> =>
                     loader'[p].weight_idx_ \in loader'[p].ignore_features_
              /\ io_config.group_column # <<>> =>
                     loader'[p].group_idx_ \in loader'[p].ignore_features_]_vars

\* a role string that names a column: a header name behind the prefix, or
\* a non-negative integer
WellFormed(str) ==
    IF StartsWith(str, name_prefix)
    THEN \E c \in 1..Len(HeaderNames) : HeaderNames[c] = Substr(str, Len(name_prefix))
    ELSE str # <<>> /\ \A k \in 1..Len(str) : IsDigit(str[k])

\* C13: SetHeader aborts when a role string has the name: prefix and the
\* name is not in the header, or has no prefix and is not a non-negative
\* integer; when it returns, every configured role is resolved to exactly
\* the column that was configured: no negative index, no index of the
\* label column, no name without header is accepted or redirected.
C13_NoMisconfigurationAccepted ==
    \A p \in Procs : pc[p] = "header_set" =>
        LET ld == loader[p]
            feature(str, idx) ==
                /\ WellFormed(str)
                /\ ColumnOf(str) # ld.label_idx_
                /\ idx = PostRemoval(ColumnOf(str), ld.label_idx_)
        IN  /\ io_config.label_column # <<>> =>
                   /\ WellFormed(io_config.label_column)
                   /\ ld.label_idx_ = ColumnOf(io_config.label_column)
            /\ io_config.weight_column # <<>> =>
                   feature(io_config.weight_column, ld.weight_idx_)
            /\ io_config.group_column # <<>> =>
                   feature(io_config.group_column, ld.group_idx_)
            /\ \A token \in IgnoreTokens :
                   \E idx \in ld.ignore_features_ : feature(token, idx)

\* C14: after ConstructBinMappersFromTextData or CostructFromSampleData,
\* dataset.feature_names has exactly num_total_features entries, with or
\* without a header and also when the loader has built a Dataset before;
\* with no header the entries are Column_0 .. Column_{num_total_features-1}.
C14_OneNamePerColumn ==
    \A p \in Procs : pc[p] = "assembled" =>
        /\ Len(dataset[p].feature_names) = dataset[p].num_total_features
        /\ ~io_config.has_header =>
               dataset[p].feature_names =
                   [i \in 1..dataset[p].num_total_features |-> ColumnName(i - 1)]

----------------------------------------------------------------------------
(* Properties of LoadFromBinFile                                            *)

\* the (feature, row, value) triples of the saved rows used_data_indices
RetainedData(saved, used_data_indices) ==
    UNION {{<<t[1], k - 1, t[3]>> :
                k \in {j \in 1..Len(used_data_indices) : used_data_indices[j] = t[2]}} :
           t \in saved.data}

----------------------------------------------------------------------------
(* Properties of the group-granularity predicate                            *)

\* the number of rows the query file declares: query_boundaries[num_queries]
DeclaredRows == env.query_boundaries[Len(env.query_boundaries)]

\* C17: in the group-granularity predicate a row at or beyond
\* query_boundaries[num_queries] aborts the pass when the predicate is
\* evaluated on it: no pass gets past such a row, no such row is accepted,
\* and no draw is made for it.
C17_RowBeyondGroupsAborts ==
    \A p \in Procs :
        (env.query_boundaries # <<>> /\ PartitionNeeded(p)) =>
            /\ pc[p] # "fatal" => reader[p].line_idx <= DeclaredRows
            /\ \A k \in 1..Len(reader[p].used_data_indices) :
                   reader[p].used_data_indices[k] < DeclaredRows
            /\ \A k \in 1..Len(reader[p].decisions) :
                   reader[p].decisions[k].line_idx < DeclaredRows

----------------------------------------------------------------------------
(* Properties of the collective                                             *)

\* rank p waits in Network::Allgather
InAllgather(p) == pc[p] = "allgather" /\ net[p].entered

\* rank q has left LoadFromFile, by return or by abort, and never called
\* Network::Allgather
LeftWithoutAllgather(q) == pc[q] \in {"done", "fatal", "fatal_check"} /\ ~net[q].entered

\* C16: when the ranks of one training job each call LoadFromFile with the
\* same configuration, every rank calls Network::Allgather or none does: no
\* rank has returned or aborted without the call while another rank waits
\* in it.
C16_AllgatherAllOrNone ==
    \A p \in Trainers, q \in Trainers : ~(InAllgather(p) /\ LeftWithoutAllgather(q))

----------------------------------------------------------------------------
(* Properties of the shard arrays                                           *)

\* ceil(total_num_feature / num_machines)
CeilDiv(total_num_feature, num_machines) ==
    (total_num_feature + num_machines - 1) \div num_machines

RECURSIVE SumSeq(_)
SumSeq(seq) == IF seq = <<>> THEN 0 ELSE Head(seq) + SumSeq(Tail(seq))

\* the columns [start[i], start[i] + len[i]) of rank i (arrays from 1)
ShardColumns(start, len, k) == start[k]..(start[k] + len[k] - 1)

\* C18: for every total_num_feature >= 0 and num_machines >= 1 the arrays
\* satisfy start[0] = 0, start[i+1] = start[i] + len[i],
\* 0 <= len[i] <= ceil(total_num_feature / num_machines), the lengths sum to
\* total_num_feature, the shards are disjoint and cover every column, every
\* shard before the last non-empty one has exactly ceil(...) columns, and
\* the arrays are those the bin search of each rank uses.
C18_ShardsPartitionColumns ==
    \A p \in Procs :
        pc[p] = "sharded" =>
            LET start == reader[p].start
                len == reader[p].len
                num_machines == args[p].num_machines
                total_num_feature == dataset[p].num_total_features
                ceil == CeilDiv(total_num_feature, num_machines)
            IN  /\ start[1] = 0
                /\ \A k \in 1..(num_machines - 1) : start[k + 1] = start[k] + len[k]
                /\ \A k \in 1..num_machines : 0 <= len[k] /\ len[k] <= ceil
                /\ SumSeq(len) = total_num_feature
                /\ \A k \in 1..num_machines, j \in 1..num_machines :
                       k # j => ShardColumns(start, len, k) \cap ShardColumns(start, len, j) = {}
                /\ UNION {ShardColumns(start, len, k) : k \in 1..num_machines}
                       = 0..(total_num_feature - 1)
                /\ \A k \in 1..num_machines, j \in 1..num_machines :
                       (k < j /\ len[j] > 0) => len[k] = ceil
                /\ \A k \in 1..num_machines :
                       /\ start[k] = ShardStart(k - 1, total_num_feature, num_machines)
                       /\ len[k] = ShardLen(k - 1, total_num_feature, num_machines)

C18_Witness ==
    \E p \in Procs :
        /\ pc[p] = "sharded"
        /\ args[p].num_machines >= 3
        /\ dataset[p].num_total_features > args[p].num_machines
        /\ reader[p].len[args[p].num_machines] = 0
        /\ reader[p].len[args[p].num_machines - 1] \in
               1..(CeilDiv(dataset[p].num_total_features, args[p].num_machines) - 1)

----------------------------------------------------------------------------
(* Properties of ExtractFeaturesFromMemory and ExtractFeaturesFromFile      *)

\* the parsed pairs (row i, column c, value v) of the rows
ParsedPairs(rows) ==
    UNION {{<<k - 1, pr[1], pr[2]>> : pr \in PairsOf(rows, k)} : k \in 1..Len(rows)}

\* c < num_total_features and used_feature_map[c] >= 0
ToFeature(ds, c) == c < ds.num_total_features /\ ds.used_feature_map[c + 1] >= 0

\* C19: every parsed pair (c, v) of row i goes to features[used_feature_map[c]]
\* if c < num_total_features and used_feature_map[c] >= 0, otherwise to the
\* weight of row i if c = weight_idx, otherwise to the query id of row i if
\* c = group_idx, otherwise nowhere; the label of every row is written.
C19_RoutingRule ==
    \A p \in Procs :
        pc[p] \in {"loaded", "done", "fatal_check"} =>
            LET ds == dataset[p]
                ld == loader[p]
                pairs == ParsedPairs(env.lines)
            IN  /\ ds.data = {<<ds.used_feature_map[t[2] + 1], t[1], t[3]>> :
                                  t \in {u \in pairs : ToFeature(ds, u[2])}}
                /\ ds.weights = {<<t[1], t[3]>> :
                                  t \in {u \in pairs : /\ ~ToFeature(ds, u[2])
                                                       /\ u[2] = ld.weight_idx_}}
                /\ ds.queries = {<<t[1], t[3]>> :
                                  t \in {u \in pairs : /\ ~ToFeature(ds, u[2])
                                                       /\ u[2] # ld.weight_idx_
                                                       /\ u[2] = ld.group_idx_}}
                /\ ds.label = [k \in 1..Len(env.lines) |-> env.lines[k].label]

============================================================================
